---- MODULE Spec2Model ----
(***************************************************************************)
(* Model of the task scheduler of nsfwjs-api (src/src/queue.js, class      *)
(* QueueManager).                                                          *)
(*                                                                         *)
(* JavaScript runs the scheduler on one thread: every handler (an addTask  *)
(* call, the continuation of processQueue after `await item.task()`, a     *)
(* setTimeout callback, clear()) runs to completion before the next one    *)
(* starts.  Each handler is one action here, with every processQueue()     *)
(* call it makes included.  A task is an async function (queue.js:18), so  *)
(* it never throws synchronously: its settlement is always observed by a   *)
(* later step than its admission.  Time is not measured: an armed timer    *)
(* may fire at any later step until clearTimeout disarms it.               *)
(*                                                                         *)
(* Tasks are named by the order of their addTask call: 1, 2, 3, ...        *)
(***************************************************************************)
EXTENDS Integers, Sequences, FiniteSets

\* Bounds of the model.
MaxTasks == 4
MaxPriority == 1
MaxConcurrency == 2
\* The longest burst of addTask calls, for the specifications that follow a
\* backlog rather than the priorities of the tasks.
MaxBurst == 5
\* The most completions and failures in the history of a scheduler whose
\* health is reported.
MaxCompleted == 10
MaxFailed == 1
\* The most POST /analyze requests followed to their responses.
MaxRequests == 2
\* The longest timeout a configuration or a task asks for, in units of time.
MaxTimeout == 2
\* The number of requests the server takes before it has closed.
MaxInFlight == 1
\* The number of SIGTERM and SIGINT signals the process receives, and with
\* it the number of drain calls a behaviour has.
MaxSignals == 2

\* `config.concurrency || 5`
DefaultConcurrency == 5
\* `config.timeout || 30000`
DefaultTimeout == 30000

Ids == 1..MaxBurst
Priorities == 0..MaxPriority
\* config.concurrency as given to the constructor; 0 stands for "absent"
\* (undefined and 0 are both falsy in `config.concurrency || 5`).
ConfigConcurrency == 0..MaxConcurrency
\* config.timeout, and options.timeout of addTask; 0 stands for "absent"
\* (undefined and 0 are both falsy in `|| this.timeout`, `|| 30000`).
Timeouts == 0..MaxTimeout
\* The calls of onIdle() and onIdleWithTimeout(), in the order they are made.
Drains == 1..MaxSignals

VARIABLES
  concurrency,    \* this.concurrency
  timeout,        \* this.timeout
  queue,          \* this.queue: the waiting items, each [id, priority, timeout]
  item,           \* `item` of the latest processQueue call that admitted one
  running,        \* this.running
  stats,          \* this.stats: [total, completed, failed, pending]
  nTasks,         \* number of addTask calls so far (names the next item)
  op,             \* item.task(): "idle" (not invoked), "executing", "resolved", "rejected"
  timer,          \* the item's setTimeout: "unset", "armed", "cleared", "fired"
  delay,          \* the delay the item's setTimeout was called with, 0 before
  future,         \* the promise addTask returned: "none" (no such task yet),
                  \* "pending", "resolved", or the rejection's message
  terminations,   \* per task, how many times a handler counted it into
                  \* completed or failed (each together with a running--)
  admittedAt,     \* how many addTask calls had been made when `item` was admitted
  idle,           \* per drain call, the promise of onIdle(): "none" (no call),
                  \* "polling" (pending, checkIdle's 100 ms timer armed), "resolved"
  drainTimer,     \* per drain call, the setTimeout of onIdleWithTimeout: "unset",
                  \* "armed", "fired"
  drain,          \* per drain call, the promise of onIdleWithTimeout (the race):
                  \* "none", "pending", "resolved", or the rejection's message
  polled,         \* whether a checkIdle timer callback has run
  thrown,         \* per task, the message of the error its operation threw
                  \* (the operation of POST /analyze, index.js:91-108)
  response,       \* per task, the HTTP response of POST /analyze:
                  \* [statusCode, type], NoResponse before it is sent
  signals,        \* how many signals have called shutdown(signal)
  shutdown        \* the process (index.js:198-221): "up", "closing" (signal
                  \* received, server.close() called), "draining" (its callback
                  \* waits for onIdleWithTimeout), "exited"

\* The variables of the scheduler proper.
schedVars == <<concurrency, timeout, queue, item, running, stats, nTasks, op,
               timer, delay, future, terminations, admittedAt>>

\* The state of a drain call (onIdle, onIdleWithTimeout).
drainVars == <<idle, drainTimer, drain, polled>>

\* The state of the HTTP server around the scheduler: the POST /analyze
\* handlers that submitted the tasks, and the shutdown.
httpVars == <<thrown, response, signals, shutdown>>

vars == <<concurrency, timeout, queue, item, running, stats, nTasks, op, timer,
          delay, future, terminations, admittedAt, idle, drainTimer, drain, polled,
          thrown, response, signals, shutdown>>

\* `item` before any admission.
NoItem == [id |-> 0, priority |-> 0, timeout |-> 0]

\* The messages of the errors the scheduler rejects with, and the stand-in
\* for whatever error the task itself rejected with.
TaskTimeout == "Task timeout"
QueueCleared == "Queue cleared"
TaskError == "task error"
\* No error thrown by the operation (yet), no response sent (yet).
NoError == <<>>
NoResponse == [statusCode |-> 0, type |-> "none"]
QueueIdleTimeout == "Queue idle timeout"

----------------------------------------------------------------------------
\* constructor

Constructor(cfg, to) ==
  /\ concurrency = (IF cfg = 0 THEN DefaultConcurrency ELSE cfg)
  /\ timeout = (IF to = 0 THEN DefaultTimeout ELSE to)
  /\ queue = <<>>
  /\ running = 0
  /\ stats = [total |-> 0, completed |-> 0, failed |-> 0, pending |-> 0]

\* No addTask, drain call, request or signal yet.
NoCalls ==
  /\ item = NoItem
  /\ nTasks = 0
  /\ op = [t \in Ids |-> "idle"]
  /\ timer = [t \in Ids |-> "unset"]
  /\ delay = [t \in Ids |-> 0]
  /\ future = [t \in Ids |-> "none"]
  /\ terminations = [t \in Ids |-> 0]
  /\ admittedAt = 0
  /\ idle = [d \in Drains |-> "none"]
  /\ drainTimer = [d \in Drains |-> "unset"]
  /\ drain = [d \in Drains |-> "none"]
  /\ polled = FALSE
  /\ thrown = [t \in Ids |-> NoError]
  /\ response = [t \in Ids |-> NoResponse]
  /\ signals = 0
  /\ shutdown = "up"

\* A scheduler configured without a timeout, as the other claims have it.
Init ==
  /\ \E cfg \in ConfigConcurrency : Constructor(cfg, 0)
  /\ NoCalls

\* A scheduler of any configuration.
InitTimeout ==
  /\ \E cfg \in ConfigConcurrency, to \in Timeouts : Constructor(cfg, to)
  /\ NoCalls

----------------------------------------------------------------------------
\* Promise semantics: resolve/reject settle a pending promise and are
\* ignored by a promise that is already settled.

\* A promise that a later resolve/reject would settle again.
SettleOverwrite(f, t, outcome) == [f EXCEPT ![t] = outcome]

Settle(f, t, outcome) ==
  IF f[t] = "pending" THEN [f EXCEPT ![t] = outcome] ELSE f

----------------------------------------------------------------------------
\* this.queue.sort((a, b) => b.priority - a.priority)
\* Array.prototype.sort is stable (ES2019, Node >= 11; the image is node:20):
\* items the comparator calls equal keep their order.

\* A comparator with its operands exchanged: lower priority first.
CompareAscending(a, b) == a.priority - b.priority

\* The comparator: negative when a sorts before b.
Compare(a, b) == b.priority - a.priority

\* A sort that is not stable: x goes before the items it compares equal to.
RECURSIVE InsertUnstable(_, _)
InsertUnstable(s, x) ==
  IF s = <<>> THEN <<x>>
  ELSE IF Compare(x, Head(s)) <= 0
       THEN <<x>> \o s
       ELSE <<Head(s)>> \o InsertUnstable(Tail(s), x)

\* x placed in the sorted s behind every item it does not sort before.
RECURSIVE InsertByPriority(_, _)
InsertByPriority(s, x) ==
  IF s = <<>> THEN <<x>>
  ELSE IF Compare(x, Head(s)) < 0
       THEN <<x>> \o s
       ELSE <<Head(s)>> \o InsertByPriority(Tail(s), x)

RECURSIVE SortByPriority(_)
SortByPriority(s) ==
  IF s = <<>> THEN <<>>
  ELSE InsertByPriority(SortByPriority(SubSeq(s, 1, Len(s) - 1)), s[Len(s)])

----------------------------------------------------------------------------
\* processQueue(), up to its `await item.task()`: the gate, the admission,
\* the arming of the timer and the invocation of the task.  The result is the
\* scheduler's state after the call.

\* A gate that compares with > where the code compares with >=.
ProcessQueueOffByOne(q, r, st, o, tm) ==
  IF r > concurrency \/ Len(q) = 0
  THEN [queue |-> q, item |-> item, running |-> r, stats |-> st, op |-> o, timer |-> tm,
        delay |-> delay]
  ELSE LET it == Head(q) IN
       [queue   |-> Tail(q),
        item    |-> it,
        running |-> r + 1,
        stats   |-> [st EXCEPT !.pending = @ - 1],
        timer   |-> [tm EXCEPT ![it.id] = "armed"],
        delay   |-> [delay EXCEPT ![it.id] = it.timeout],
        op      |-> [o EXCEPT ![it.id] = "executing"]]

\* A gate that arms every timer with the scheduler's timeout, whatever the
\* item asks for.
ProcessQueueDefaultDelay(q, r, st, o, tm) ==
  IF r >= concurrency \/ Len(q) = 0
  THEN [queue |-> q, item |-> item, running |-> r, stats |-> st, op |-> o, timer |-> tm,
        delay |-> delay]
  ELSE LET it == Head(q) IN
       [queue   |-> Tail(q),
        item    |-> it,
        running |-> r + 1,
        stats   |-> [st EXCEPT !.pending = @ - 1],
        timer   |-> [tm EXCEPT ![it.id] = "armed"],
        delay   |-> [delay EXCEPT ![it.id] = timeout],
        op      |-> [o EXCEPT ![it.id] = "executing"]]

ProcessQueue(q, r, st, o, tm) ==
  IF r >= concurrency \/ Len(q) = 0
  THEN [queue |-> q, item |-> item, running |-> r, stats |-> st, op |-> o, timer |-> tm,
        delay |-> delay]
  ELSE LET it == Head(q) IN                                 \* this.queue.shift()
       [queue   |-> Tail(q),
        item    |-> it,
        running |-> r + 1,
        stats   |-> [st EXCEPT !.pending = @ - 1],
        timer   |-> [tm EXCEPT ![it.id] = "armed"],
        delay   |-> [delay EXCEPT ![it.id] = it.timeout],
        op      |-> [o EXCEPT ![it.id] = "executing"]]

\* The variables processQueue writes, set from its result.
Apply(pq) ==
  /\ queue' = pq.queue
  /\ item' = pq.item
  /\ running' = pq.running
  /\ stats' = pq.stats
  /\ op' = pq.op
  /\ timer' = pq.timer
  /\ delay' = pq.delay
  /\ admittedAt' = IF pq.item # item THEN nTasks' ELSE admittedAt

----------------------------------------------------------------------------
\* addTask(task, {priority: p})

\* An addTask that queues the item and leaves the gate to the next settlement.
AddTaskNoProcessQueue(p) ==
  /\ nTasks < MaxTasks
  /\ LET t  == nTasks + 1
         queueItem == [id |-> t, priority |-> IF p = 0 THEN 0 ELSE p, timeout |-> timeout]
     IN /\ nTasks' = t
        /\ future' = [future EXCEPT ![t] = "pending"]
        /\ stats' = [stats EXCEPT !.total = @ + 1, !.pending = @ + 1]
        /\ queue' = SortByPriority(Append(queue, queueItem))
  /\ UNCHANGED <<concurrency, timeout, terminations, item, running, op, timer, admittedAt, delay, drainVars, httpVars>>

\* The body of addTask(task, {priority: p, timeout: to}).
SubmitWith(p, to) ==
  /\ LET t  == nTasks + 1
         st == [stats EXCEPT !.total = @ + 1, !.pending = @ + 1]
         queueItem == [id |-> t,
                       priority |-> IF p = 0 THEN 0 ELSE p,       \* options.priority || 0
                       timeout |-> IF to = 0 THEN timeout ELSE to] \* options.timeout || this.timeout
         q  == SortByPriority(Append(queue, queueItem))
     IN /\ nTasks' = t
        /\ future' = [future EXCEPT ![t] = "pending"]
        /\ Apply(ProcessQueue(q, running, st, op, timer))
  /\ UNCHANGED <<concurrency, timeout, terminations, drainVars, httpVars>>

\* The body of addTask(task, {priority: p}).
Submit(p) == SubmitWith(p, 0)

\* An addTask over a bounded queue: with a task already waiting it refuses
\* the new one.
AddTaskRefusesWhenFull(p) ==
  /\ nTasks < MaxTasks
  /\ IF Len(queue) >= 1
     THEN /\ nTasks' = nTasks + 1
          /\ future' = [future EXCEPT ![nTasks + 1] = "Queue full"]
          /\ UNCHANGED <<concurrency, timeout, queue, item, running, stats, op, timer,
                         terminations, admittedAt, delay, drainVars, httpVars>>
     ELSE Submit(p)

\* addTask, for at most MaxTasks calls of any priority.
AddTask(p) == nTasks < MaxTasks /\ Submit(p)

\* addTask(task, {timeout: to}), for at most MaxRequests calls.
AddTaskTimed(to) == nTasks < MaxRequests /\ SubmitWith(0, to)

\* addTask with the default priority, for at most MaxBurst calls.
AddTaskInBurst == nTasks < MaxBurst /\ Submit(0)

\* The continuation of processQueue after `await item.task()` when the task's
\* promise fulfils: lines 72-78.
Then(t) ==
  /\ op[t] = "executing"
  /\ UNCHANGED <<concurrency, timeout, nTasks, drainVars>>
  /\ LET tm == [timer EXCEPT ![t] = IF @ = "armed" THEN "cleared" ELSE @]  \* clearTimeout
         st == [stats EXCEPT !.completed = @ + 1]
         o  == [op EXCEPT ![t] = "resolved"]
     IN /\ future' = Settle(future, t, "resolved")
        /\ terminations' = [terminations EXCEPT ![t] = @ + 1]
        /\ Apply(ProcessQueue(queue, running - 1, st, o, tm))

\* The operation fulfils, with no request handler behind the task.
TaskResolves(t) == Then(t) /\ UNCHANGED httpVars

\* A catch block that rejects with an error of the scheduler's own in place
\* of the one it caught.
TaskRejectsWrapped(t) ==
  /\ op[t] = "executing"
  /\ UNCHANGED <<concurrency, timeout, nTasks, drainVars, httpVars>>
  /\ LET st == [stats EXCEPT !.failed = @ + 1]
         o  == [op EXCEPT ![t] = "rejected"]
     IN /\ future' = Settle(future, t, TaskTimeout)
        /\ terminations' = [terminations EXCEPT ![t] = @ + 1]
        /\ Apply(ProcessQueue(queue, running - 1, st, o, timer))

\* A catch block that puts the failed item back into the queue for another
\* try.
TaskRejectsRetries(t) ==
  /\ op[t] = "executing"
  /\ UNCHANGED <<concurrency, timeout, nTasks, future, drainVars, httpVars>>
  /\ LET st == [stats EXCEPT !.failed = @ + 1, !.pending = @ + 1]
         o  == [op EXCEPT ![t] = "rejected"]
         q  == Append(queue, [id |-> t, priority |-> 0, timeout |-> timeout])
     IN /\ terminations' = [terminations EXCEPT ![t] = @ + 1]
        /\ Apply(ProcessQueue(q, running - 1, st, o, timer))

\* The catch block, when the task's promise rejects: lines 80-87.  The timer
\* is not cleared here.
Catch(t) ==
  /\ op[t] = "executing"
  /\ UNCHANGED <<concurrency, timeout, nTasks, drainVars>>
  /\ LET st == [stats EXCEPT !.failed = @ + 1]
         o  == [op EXCEPT ![t] = "rejected"]
     IN /\ future' = Settle(future, t, TaskError)
        /\ terminations' = [terminations EXCEPT ![t] = @ + 1]
        /\ Apply(ProcessQueue(queue, running - 1, st, o, timer))

\* The operation rejects with an error the model does not look into.
TaskRejects(t) == Catch(t) /\ UNCHANGED httpVars

\* A timer callback that does the bookkeeping and leaves the rejection to the
\* operation's own settlement.
TimerFiresNoReject(t) ==
  /\ timer[t] = "armed"
  /\ UNCHANGED <<concurrency, timeout, nTasks, future, drainVars, httpVars>>
  /\ LET st == [stats EXCEPT !.failed = @ + 1]
         tm == [timer EXCEPT ![t] = "fired"]
     IN /\ terminations' = [terminations EXCEPT ![t] = @ + 1]
        /\ Apply(ProcessQueue(queue, running - 1, st, op, tm))

\* A timer callback that does not call processQueue().
TimerFiresNoProcessQueue(t) ==
  /\ timer[t] = "armed"
  /\ UNCHANGED <<concurrency, timeout, nTasks, queue, item, op, admittedAt, delay, drainVars, httpVars>>
  /\ stats' = [stats EXCEPT !.failed = @ + 1]
  /\ running' = running - 1
  /\ timer' = [timer EXCEPT ![t] = "fired"]
  /\ future' = Settle(future, t, TaskTimeout)
  /\ terminations' = [terminations EXCEPT ![t] = @ + 1]

\* The setTimeout callback of an admitted item: lines 61-66.
TimerCallback(t) ==
  /\ timer[t] = "armed"
  /\ UNCHANGED <<concurrency, timeout, nTasks, drainVars>>
  /\ LET st == [stats EXCEPT !.failed = @ + 1]
         tm == [timer EXCEPT ![t] = "fired"]
     IN /\ future' = Settle(future, t, TaskTimeout)
        /\ terminations' = [terminations EXCEPT ![t] = @ + 1]
        /\ Apply(ProcessQueue(queue, running - 1, st, op, tm))

\* The timer of an admitted item fires, with no request handler behind the
\* task.
TimerFires(t) == TimerCallback(t) /\ UNCHANGED httpVars

\* The futures f after every item of q was rejected with `reason`.
RECURSIVE RejectAll(_, _, _)
RejectAll(f, q, reason) ==
  IF q = <<>> THEN f ELSE RejectAll(Settle(f, Head(q).id, reason), Tail(q), reason)

\* A clear() that rejects the waiting tasks and forgets `this.queue = []`.
ClearKeepsQueue ==
  /\ future' = RejectAll(future, queue, QueueCleared)
  /\ stats' = [stats EXCEPT !.pending = 0]
  /\ UNCHANGED <<concurrency, timeout, queue, item, running, nTasks, op, timer, terminations, admittedAt, delay, drainVars, httpVars>>

\* A clear() that also forgets the tasks that are running.
ClearResetsRunning ==
  /\ future' = RejectAll(future, queue, QueueCleared)
  /\ queue' = <<>>
  /\ stats' = [stats EXCEPT !.pending = 0]
  /\ running' = 0
  /\ UNCHANGED <<concurrency, timeout, item, nTasks, op, timer, terminations, admittedAt, delay, drainVars, httpVars>>

\* clear()
Clear ==
  /\ future' = RejectAll(future, queue, QueueCleared)
  /\ queue' = <<>>
  /\ stats' = [stats EXCEPT !.pending = 0]
  /\ UNCHANGED <<concurrency, timeout, item, running, nTasks, op, timer, terminations, admittedAt, delay, drainVars, httpVars>>

\* A snapshot that keeps the `pending` of this.stats.
GetStatsOwnPending ==
  [total |-> stats.total, completed |-> stats.completed, failed |-> stats.failed,
   concurrency |-> concurrency, size |-> Len(queue), pending |-> stats.pending,
   isPaused |-> FALSE]

\* getStats(): this.stats spread, then concurrency, size, pending (which
\* replaces the `pending` of this.stats) and isPaused.
GetStats ==
  [total |-> stats.total, completed |-> stats.completed, failed |-> stats.failed,
   concurrency |-> concurrency, size |-> Len(queue), pending |-> running,
   isPaused |-> FALSE]

\* The notes of getRecommendations.
HighFailureRate == "High failure rate detected. Consider investigating error causes."
QueueBacklogHigh == "Queue backlog is high. Consider increasing concurrency or optimizing tasks."
PerformingWell == "Queue is performing well with no failures."

\* A failure test that also fires when failed is exactly a tenth of completed.
GetRecommendationsAtLeast(st) ==
  (IF 10 * st.failed >= st.completed THEN <<HighFailureRate>> ELSE <<>>)
  \o (IF st.pending > concurrency * 3 THEN <<QueueBacklogHigh>> ELSE <<>>)
  \o (IF st.completed > 0 /\ st.failed = 0 THEN <<PerformingWell>> ELSE <<>>)

\* getRecommendations(stats): the notes in the order of their push.
\* `stats.failed > stats.completed * 0.1` is computed in doubles; on counters
\* it decides as 10 * failed > completed does (0.1 as a double lies above
\* 1/10, so completed * 0.1 never rounds below completed / 10).
GetRecommendations(st) ==
  (IF 10 * st.failed > st.completed THEN <<HighFailureRate>> ELSE <<>>)
  \o (IF st.pending > concurrency * 3 THEN <<QueueBacklogHigh>> ELSE <<>>)
  \o (IF st.completed > 0 /\ st.failed = 0 THEN <<PerformingWell>> ELSE <<>>)

\* getHealth(): `stats` is the snapshot of getStats().
GetHealth ==
  [isHealthy |-> GetStats.pending < concurrency * 2,
   stats |-> GetStats,
   recommendations |-> GetRecommendations(GetStats)]

\* resetStats()
ResetStats ==
  /\ stats' = [total |-> 0, completed |-> 0, failed |-> 0, pending |-> 0]
  /\ UNCHANGED <<concurrency, timeout, queue, item, running, nTasks, op, timer, future,
                 terminations, admittedAt, delay, drainVars, httpVars>>

----------------------------------------------------------------------------
\* onIdle() and onIdleWithTimeout(timeout).  A call made directly is the
\* first drain call of its behaviour; it may be made in any state.  The
\* shutdown makes one call per signal.

\* A test that looks at the queue alone.
IsIdleQueueOnly == Len(queue) = 0

\* checkIdle's test: this.running === 0 && this.queue.length === 0
IsIdle == running = 0 /\ Len(queue) = 0

\* A promise v after a resolve or reject with `outcome`; Promise.race settles
\* its promise this way with the first of its inputs to settle.
SettleOne(v, outcome) == IF v = "pending" THEN outcome ELSE v

\* onIdle(): the first checkIdle() runs inside the call.
OnIdle ==
  /\ \A d \in Drains : idle[d] = "none"
  /\ idle' = [idle EXCEPT ![1] = IF IsIdle THEN "resolved" ELSE "polling"]
  /\ UNCHANGED <<drainTimer, drain, polled>>
  /\ UNCHANGED schedVars
  /\ UNCHANGED httpVars

\* onIdleWithTimeout(timeout), called once for each drain call of D in one
\* turn of the event loop: onIdle() with its first checkIdle(), then the
\* timeout promise and its timer, then the race of the two.
StartDrain(D) ==
  /\ \A d \in D : idle[d] = "none"
  /\ idle' = [d \in Drains |->
               IF d \in D THEN (IF IsIdle THEN "resolved" ELSE "polling") ELSE idle[d]]
  /\ drainTimer' = [d \in Drains |-> IF d \in D THEN "armed" ELSE drainTimer[d]]
  /\ drain' = [d \in Drains |->
                IF d \in D THEN (IF IsIdle THEN "resolved" ELSE "pending") ELSE drain[d]]
  /\ UNCHANGED <<polled, schedVars>>

\* onIdleWithTimeout called by anyone but the shutdown.
OnIdleWithTimeout ==
  /\ \A d \in Drains : idle[d] = "none"
  /\ StartDrain({1})
  /\ UNCHANGED httpVars

\* The callback of setTimeout(checkIdle, 100) of drain call d: resolves
\* onIdle's promise, and with it the race, or arms itself again.
CheckIdle(d) ==
  /\ idle[d] = "polling"
  /\ idle' = [idle EXCEPT ![d] = IF IsIdle THEN "resolved" ELSE "polling"]
  /\ drain' = [drain EXCEPT ![d] = IF IsIdle THEN SettleOne(@, "resolved") ELSE @]
  /\ polled' = TRUE
  /\ UNCHANGED drainTimer
  /\ UNCHANGED schedVars
  /\ UNCHANGED httpVars

\* A timeout callback that rejects whatever the race has already settled.
DrainTimerFiresOverrides(d) ==
  /\ drainTimer[d] = "armed"
  /\ drainTimer' = [drainTimer EXCEPT ![d] = "fired"]
  /\ drain' = [drain EXCEPT ![d] = QueueIdleTimeout]
  /\ UNCHANGED <<idle, polled>>
  /\ UNCHANGED schedVars
  /\ UNCHANGED httpVars

\* A timeout callback that calls resolve where the code calls reject.
DrainTimerFiresResolves(d) ==
  /\ drainTimer[d] = "armed"
  /\ drainTimer' = [drainTimer EXCEPT ![d] = "fired"]
  /\ drain' = [drain EXCEPT ![d] = SettleOne(@, "resolved")]
  /\ UNCHANGED <<idle, polled>>
  /\ UNCHANGED schedVars
  /\ UNCHANGED httpVars

\* The callback of onIdleWithTimeout's setTimeout of drain call d: rejects
\* the timeout promise, and with it the race if onIdle() has not resolved.
\* checkIdle's own timer is left as it is.
DrainTimerFires(d) ==
  /\ drainTimer[d] = "armed"
  /\ drainTimer' = [drainTimer EXCEPT ![d] = "fired"]
  /\ drain' = [drain EXCEPT ![d] = SettleOne(@, QueueIdleTimeout)]
  /\ UNCHANGED <<idle, polled>>
  /\ UNCHANGED schedVars
  /\ UNCHANGED httpVars

----------------------------------------------------------------------------
\* POST /analyze (index.js:81-118) and the errors its operation throws.  A
\* message is the sequence of its words, punctuation apart, and
\* String.prototype.includes is containment of a run of words.

Includes(m, pat) ==
  \E i \in 1..(Len(m) - Len(pat) + 1) : SubSeq(m, i, i + Len(pat) - 1) = pat

\* The codes of the axios failures followed here: the download timed out, the
\* host was not found, the connection was reset.
AxiosCodes == {"ECONNABORTED", "ENOTFOUND", "ECONNRESET"}

\* fetchImage's catch: the error it throws for an axios error without response.
FetchImageError(code) ==
  IF code = "ECONNABORTED"
  THEN <<"Request", "timeout", "-", "image", "took", "too", "long", "to", "download">>
  ELSE IF code = "ENOTFOUND"
  THEN <<"Image", "URL", "not", "found">>
  ELSE <<"Failed", "to", "fetch", "image", ":", "socket", "hang", "up">>

\* processImage's catch: `Image processing failed: ${error.message}`
ProcessImageError(inner) == <<"Image", "processing", "failed", ":">> \o inner

\* analyzeImage's catch: `Image analysis failed: ${error.message}`
AnalyzeImageError == <<"Image", "analysis", "failed", ":", "decode", "error">>

\* What the operation of POST /analyze rejects with.
OperationErrors ==
  {ProcessImageError(FetchImageError(code)) : code \in AxiosCodes} \cup {AnalyzeImageError}

\* The message of the error a rejected future carries: the scheduler's own
\* ('Task timeout', 'Queue cleared') or the one the operation threw.
ErrorMessage(t) ==
  IF future[t] = TaskTimeout THEN <<"Task", "timeout">>
  ELSE IF future[t] = QueueCleared THEN <<"Queue", "cleared">>
  ELSE thrown[t]

\* ErrorHandler.categorizeError(error): the first test that matches decides.
CategorizeError(msg) ==
  LET message == IF msg = <<>> THEN <<"Unknown", "error", "occurred">> ELSE msg IN
  IF Includes(message, <<"Invalid", "URL">>) \/ Includes(message, <<"not", "found">>)
  THEN [statusCode |-> 400, type |-> "INVALID_URL"]
  ELSE IF \/ Includes(message, <<"Image", "processing", "failed">>)
          \/ Includes(message, <<"Image", "resizing", "failed">>)
          \/ Includes(message, <<"Empty", "response">>)
  THEN [statusCode |-> 422, type |-> "IMAGE_PROCESSING_ERROR"]
  ELSE IF \/ Includes(message, <<"Model", "not", "loaded">>)
          \/ Includes(message, <<"Model", "loading", "failed">>)
  THEN [statusCode |-> 503, type |-> "MODEL_ERROR"]
  ELSE IF Includes(message, <<"Image", "analysis", "failed">>)
  THEN [statusCode |-> 422, type |-> "ANALYSIS_ERROR"]
  ELSE IF Includes(message, <<"timeout">>) \/ Includes(message, <<"Request", "timeout">>)
  THEN [statusCode |-> 408, type |-> "TIMEOUT_ERROR"]
  ELSE IF Includes(message, <<"validation">>) \/ Includes(message, <<"required">>)
  THEN [statusCode |-> 400, type |-> "VALIDATION_ERROR"]
  ELSE [statusCode |-> 500, type |-> "INTERNAL_SERVER_ERROR"]

\* POST /analyze up to its await: addTask(operation), without options.
Analyze == nTasks < MaxRequests /\ Submit(0)

\* POST /analyze after its await, in the step that settles the future of
\* task t: the success response (index.js:111-112) or, in the handler's
\* catch, the categorized error (index.js:115-117).  The handler's await ends
\* with the first settlement of the future; a later resolve or reject of the
\* same future reaches no handler.
Responds(t) ==
  /\ response' = [response EXCEPT ![t] =
                    IF future[t] # "pending" THEN @
                    ELSE IF future'[t] = "resolved"
                         THEN [statusCode |-> 200, type |-> "success"]
                         ELSE CategorizeError(ErrorMessage(t)')]
  /\ UNCHANGED <<signals, shutdown>>

\* The operation of task t fulfils and the handler answers.
AnalyzeResolves(t) ==
  /\ Then(t)
  /\ UNCHANGED thrown
  /\ Responds(t)

\* The error fetchImage throws for an axios error of code ECONNABORTED.
DownloadTimeout == ProcessImageError(FetchImageError("ECONNABORTED"))

\* The operation of task t throws e (index.js:93-96), processQueue's catch
\* block rejects the future with it and the handler answers.  The errors
\* include an ECONNABORTED that is no timeout (a connection aborted under the
\* download), which can come at any time.
AnalyzeThrows(t, e) ==
  /\ Catch(t)
  /\ thrown' = [thrown EXCEPT ![t] = e]
  /\ Responds(t)

\* An image processor whose timeout is shorter than the scheduler's: the
\* download can time out while the task's timer is armed.
DownloadTimesOutAnyTime(t) == AnalyzeThrows(t, DownloadTimeout)

\* The download of task t runs into the timeout axios was given.  The image
\* processor and the scheduler get the same REQUEST_TIMEOUT (index.js:18-28),
\* and the task's timer is armed before the operation calls axios
\* (queue.js:61-69): the timer of axios fires after the task's timer.
DownloadTimesOut(t) ==
  /\ timer[t] = "fired"
  /\ AnalyzeThrows(t, DownloadTimeout)

\* The scheduler's timer of task t fires and the handler answers.
AnalyzeTimesOut(t) ==
  /\ TimerCallback(t)
  /\ UNCHANGED thrown
  /\ Responds(t)

----------------------------------------------------------------------------
\* Graceful shutdown (index.js:198-221).

\* POST /analyze while the server has a connection to receive it on: a server
\* that has closed has none.
AnalyzeAccepted ==
  /\ shutdown \in {"up", "closing"}
  /\ nTasks < MaxInFlight
  /\ Submit(0)

\* SIGTERM or SIGINT: shutdown(signal) calls server.close(callback), whatever
\* the server's state.  A server that listens starts closing; the callback
\* waits for its 'close' event.  A server that has closed emits the event
\* again for the new callback, which runs up to its await before any other
\* event.
Signal ==
  /\ shutdown # "exited"
  /\ signals < MaxSignals
  /\ signals' = signals + 1
  /\ shutdown' = IF shutdown = "up" THEN "closing" ELSE shutdown
  /\ IF shutdown = "draining"
     THEN StartDrain({signals + 1})
     ELSE UNCHANGED <<schedVars, drainVars>>
  /\ UNCHANGED <<thrown, response>>

\* The HTTP server has closed: the callback of every server.close() made so
\* far runs up to its `await this.queueManager.onIdleWithTimeout(10000)`.
ServerClosed ==
  /\ shutdown = "closing"
  /\ shutdown' = "draining"
  /\ StartDrain(1..signals)
  /\ UNCHANGED <<thrown, response, signals>>

\* A callback without the try/catch: a rejected drain ends it with no exit.
ExitWithoutCatch(d) ==
  /\ shutdown = "draining"
  /\ drain[d] = "resolved"
  /\ shutdown' = "exited"
  /\ UNCHANGED <<schedVars, drainVars, thrown, response, signals>>

\* The callback of drain call d after its await, whether the drain resolved
\* or the catch block took its rejection: process.exit(0).
Exit(d) ==
  /\ shutdown = "draining"
  /\ drain[d] \in {"resolved", QueueIdleTimeout}
  /\ shutdown' = "exited"
  /\ UNCHANGED <<schedVars, drainVars, thrown, response, signals>>

----------------------------------------------------------------------------
\* The scheduler without drain calls.
Next ==
  \/ \E p \in Priorities : AddTask(p)
  \/ \E t \in Ids : TaskResolves(t)
  \/ \E t \in Ids : TaskRejects(t)
  \/ \E t \in Ids : TimerFires(t)
  \/ Clear

Spec == Init /\ [][Next]_vars

\* The scheduler with a drain call.  A drain call reads `running` and the
\* length of the queue only, so the tasks here all take the default priority.
NextDrain ==
  \/ AddTask(0)
  \/ \E t \in Ids : TaskResolves(t)
  \/ \E t \in Ids : TaskRejects(t)
  \/ \E t \in Ids : TimerFires(t)
  \/ Clear
  \/ OnIdle
  \/ OnIdleWithTimeout
  \/ \E d \in Drains : CheckIdle(d)
  \/ \E d \in Drains : DrainTimerFires(d)

SpecDrain == Init /\ [][NextDrain]_vars

\* The scheduler behind POST /analyze.
NextHttp ==
  \/ Analyze
  \/ \E t \in Ids : AnalyzeResolves(t)
  \/ \E t \in Ids, e \in OperationErrors : AnalyzeThrows(t, e)
  \/ \E t \in Ids : DownloadTimesOut(t)
  \/ \E t \in Ids : AnalyzeTimesOut(t)

SpecHttp == Init /\ [][NextHttp]_vars

\* The server from a signal to its exit: requests already accepted go on
\* submitting and settling tasks; the runtime runs the callbacks of timers
\* and promises that are due.  The process is followed up to its exit: the
\* steps of the scheduler after it are steps of no process.
NextShutdown ==
  \/ AnalyzeAccepted
  \/ \E t \in Ids : AnalyzeResolves(t)
  \/ \E t \in Ids, e \in OperationErrors : AnalyzeThrows(t, e)
  \/ \E t \in Ids : DownloadTimesOut(t)
  \/ \E t \in Ids : AnalyzeTimesOut(t)
  \/ Signal
  \/ ServerClosed
  \/ \E d \in Drains : CheckIdle(d)
  \/ \E d \in Drains : DrainTimerFires(d)
  \/ \E d \in Drains : Exit(d)

SpecShutdown ==
  /\ Init /\ [][NextShutdown]_vars
  /\ WF_vars(\E d \in Drains : DrainTimerFires(d))
  /\ WF_vars(\E d \in Drains : Exit(d))

\* The scheduler with timeouts of the configuration and of the tasks.
NextTimeout ==
  \/ \E to \in Timeouts : AddTaskTimed(to)
  \/ \E t \in Ids : TaskResolves(t)
  \/ \E t \in Ids : TaskRejects(t)
  \/ \E t \in Ids : TimerFires(t)
  \/ Clear

SpecTimeout == InitTimeout /\ [][NextTimeout]_vars

\* The scheduler without clear(), with the scheduling the runtime gives: an
\* operation that was invoked settles (the claims about a burst assume it),
\* and a timer that stays armed fires.
NextLive ==
  \/ \E p \in Priorities : AddTask(p)
  \/ \E t \in Ids : TaskResolves(t)
  \/ \E t \in Ids : TaskRejects(t)
  \/ \E t \in Ids : TimerFires(t)

SpecLive ==
  /\ Init /\ [][NextLive]_vars
  /\ \A t \in Ids : WF_vars(TaskResolves(t) \/ TaskRejects(t))
  /\ \A t \in Ids : WF_vars(TimerFires(t))

\* The scheduler following a burst of default-priority tasks.
NextBurst ==
  \/ AddTaskInBurst
  \/ \E t \in Ids : TaskResolves(t)
  \/ \E t \in Ids : TaskRejects(t)
  \/ \E t \in Ids : TimerFires(t)
  \/ Clear

SpecBurst == Init /\ [][NextBurst]_vars

\* The scheduler with resetStats().  The counters do not depend on the
\* priorities, so the tasks here all take the default priority.
NextOps ==
  \/ AddTask(0)
  \/ \E t \in Ids : TaskResolves(t)
  \/ \E t \in Ids : TaskRejects(t)
  \/ \E t \in Ids : TimerFires(t)
  \/ Clear
  \/ ResetStats

SpecOps == Init /\ [][NextOps]_vars

\* The scheduler of Constructor(cfg) after it served c tasks that completed
\* and f that failed, one at a time, and is idle again.  The tasks of the
\* model are the ones submitted from here on.
Served(cfg, c, f) ==
  /\ concurrency = (IF cfg = 0 THEN DefaultConcurrency ELSE cfg)
  /\ timeout = DefaultTimeout
  /\ queue = <<>>
  /\ running = 0
  /\ stats = [total |-> c + f, completed |-> c, failed |-> f, pending |-> 0]

InitHealth ==
  /\ \E cfg \in ConfigConcurrency, c \in 0..MaxCompleted, f \in 0..MaxFailed :
        Served(cfg, c, f)
  /\ NoCalls

\* A burst of tasks on a scheduler with a history; getHealth() may be called
\* in any state.  The report is a function of the counters, the queue length
\* and the limit: the burst builds the backlog and the settlements move the
\* counters on from the history.
NextHealth ==
  \/ AddTaskInBurst
  \/ \E t \in Ids : TaskResolves(t)
  \/ \E t \in Ids : TaskRejects(t)

SpecHealth == InitHealth /\ [][NextHealth]_vars

----------------------------------------------------------------------------
\* The ids of the items waiting in q.
QueuedIds(q) == {q[i].id : i \in 1..Len(q)}

\* The tasks whose operation was started and whose caller still waits.
InFlight == {t \in Ids : op[t] # "idle" /\ future[t] = "pending"}

\* C1: in every reachable state the `running` counter is at most the
\* concurrency limit.
C1_RunningAtMostLimit == running <= concurrency

\* The gate is saturated with a task waiting behind it.
C1_Witness == running = concurrency /\ queue # <<>> /\ concurrency = MaxConcurrency

\* C2: the number of tasks that were admitted and whose future is not yet
\* settled never exceeds the concurrency limit.
C2_InFlightAtMostLimit == Cardinality(InFlight) <= concurrency

\* C3: at every observation point total = completed + failed + running +
\* pending.
C3_CountersBalance ==
  stats.total = stats.completed + stats.failed + running + stats.pending

\* A step admitted a task: `item` is the one it took off the queue.
Admits == item' # item

\* C4: of two tasks waiting together, the one of higher priority is admitted
\* first: a step that admits a task leaves no task of strictly higher
\* priority waiting, whatever the order of submission.
C4_HigherPriorityFirst ==
  [][Admits => \A i \in 1..Len(queue') : queue'[i].priority <= item'.priority]_vars

\* A task was admitted ahead of a task of lower priority submitted before it.
C4_Witness ==
  \E i \in 1..Len(queue) :
    /\ queue[i].id < item.id
    /\ queue[i].priority < item.priority
    /\ op[item.id] = "executing"

\* C5: tasks of equal priority are admitted in submission order: a step that
\* admits a task leaves no earlier-submitted task of the same priority
\* waiting, also when tasks of other priorities were inserted in between.
C5_EqualPriorityFifo ==
  [][Admits => \A i \in 1..Len(queue') :
                 queue'[i].priority = item'.priority => queue'[i].id > item'.id]_vars

\* A task was admitted while a later task of its priority, submitted before
\* that admission, still waits, with a task of another priority submitted
\* between the two and sorted around them.
C5_Witness ==
  \E i, j \in 1..Len(queue) :
    /\ queue[i].priority = item.priority
    /\ queue[j].priority # item.priority
    /\ item.id < queue[j].id
    /\ queue[j].id < queue[i].id
    /\ queue[i].id <= admittedAt
    /\ op[item.id] = "executing"

\* C6: when a task's timer fires before its operation has settled, that step
\* rejects the task's future with the timeout error, adds one to `failed` and
\* takes the task off `running` (the same step may give the slot to the next
\* waiting task, which puts one back).
C6_TimeoutRejectsAtOnce ==
  [][\A t \in Ids :
       (TimerFires(t) /\ op[t] = "executing") =>
          /\ future[t] = "pending"
          /\ future'[t] = TaskTimeout
          /\ stats'.failed = stats.failed + 1
          /\ running' = (running - 1) + (IF Admits THEN 1 ELSE 0)]_vars

\* A task timed out, its operation is still executing, and its slot was
\* given up with nobody waiting for it.
C6_Witness ==
  \E t \in Ids :
    /\ timer[t] = "fired" /\ op[t] = "executing"
    /\ future[t] = TaskTimeout
    /\ stats.failed = 1 /\ stats.completed = 0 /\ running = 0 /\ nTasks = 1

\* C7: when a timer fires while tasks wait, the same step admits the waiting
\* task of highest priority, whether or not the timed-out operation still
\* executes.
C7_TimeoutAdmitsNext ==
  [][\A t \in Ids :
       (TimerFires(t) /\ queue # <<>>) =>
          /\ item' = Head(queue)
          /\ queue' = Tail(queue)
          /\ op'[Head(queue).id] = "executing"
          /\ timer'[Head(queue).id] = "armed"
          /\ \A i \in 1..Len(queue) : queue[i].priority <= Head(queue).priority]_vars

\* Under a limit of 1, task 1 timed out and still executes, and the only
\* termination so far, that timeout, started a waiting task.
C7_Witness ==
  /\ concurrency = 1
  /\ timer[1] = "fired" /\ op[1] = "executing"
  /\ stats.failed = 1 /\ stats.completed = 0
  /\ item.id > 1 /\ op[item.id] = "executing"

\* C8: every admitted task is counted into completed or failed, and taken off
\* `running`, at most once over its life.
C8_TerminatesOnce == \A t \in Ids : terminations[t] <= 1

\* C9: the future of a task is settled once, by the first terminal event of
\* the task (success, failure, timeout, clear), and no later event changes it.
C9_SettledOnceByFirstEvent ==
  [][\A t \in Ids :
       /\ future[t] \notin {"none", "pending"} => future'[t] = future[t]
       /\ future[t] = "pending" =>
            /\ TaskResolves(t) => future'[t] = "resolved"
            /\ TaskRejects(t) => future'[t] = TaskError
            /\ TimerFires(t) => future'[t] = TaskTimeout
            /\ (Clear /\ t \in QueuedIds(queue)) => future'[t] = QueueCleared
            /\ future'[t] # "pending" =>
                 \/ TaskResolves(t) \/ TaskRejects(t) \/ TimerFires(t)
                 \/ (Clear /\ t \in QueuedIds(queue))]_vars

\* A task's operation succeeded after its timeout had fired, and its caller
\* still sees the timeout.
C9_Witness ==
  \E t \in Ids : timer[t] = "fired" /\ op[t] = "resolved" /\ future[t] = TaskTimeout

\* C10: clear() rejects the future of every waiting task with the
\* queue-cleared error and leaves the queue empty and `pending` at 0; the
\* operation of a cleared task is never started.
C10_ClearRejectsWaiting ==
  /\ [][Clear =>
          /\ \A t \in QueuedIds(queue) : future'[t] = QueueCleared
          /\ queue' = <<>>
          /\ stats'.pending = 0]_vars
  /\ [](\A t \in Ids :
          future[t] = QueueCleared =>
            op[t] = "idle" /\ timer[t] = "unset" /\ t \notin QueuedIds(queue))

\* Two waiting tasks were cleared and never started, while a task submitted
\* after them has been started.
C10_Witness ==
  \E t, u, v \in Ids :
    /\ t < u /\ u < v
    /\ future[t] = QueueCleared /\ future[u] = QueueCleared
    /\ op[t] = "idle" /\ op[u] = "idle"
    /\ op[v] # "idle"

\* C11: clear() does not touch the running tasks: `running`, `total` and
\* `completed` keep their values, no future of a started task is settled, and
\* every operation and timer stays as it was, so each running task still
\* settles by its own event.
C11_ClearLeavesRunning ==
  [][Clear =>
       /\ running' = running
       /\ stats'.total = stats.total
       /\ stats'.completed = stats.completed
       /\ \A t \in Ids : op[t] # "idle" => future'[t] = future[t]
       /\ op' = op
       /\ timer' = timer]_vars

\* Under a limit of 1, task 2 was cleared while task 1 was running, and task 1
\* has since resolved with its own result.
C11_Witness ==
  /\ concurrency = 1 /\ nTasks = 2
  /\ future[2] = QueueCleared
  /\ op[1] = "resolved" /\ future[1] = "resolved"
  /\ stats.completed = 1

\* C16: the gate is work-conserving: in every reachable state, if `running`
\* is below the limit the queue is empty.
C16_WorkConserving == running < concurrency => queue = <<>>

\* Under a limit of 1 a task waited, was admitted and has terminated: the
\* slot is free again and nothing waits.
C16_Witness ==
  /\ concurrency = 1 /\ running < concurrency /\ queue = <<>>
  /\ nTasks >= 2 /\ op[2] \in {"resolved", "rejected"}

\* C17: a task submitted below the limit is started within its addTask call;
\* a task submitted at the limit is queued by that call, and only a
\* settlement or a timeout starts it later.
C17_StartedOrBuffered ==
  [][/\ \A p \in Priorities :
          AddTask(p) =>
            IF running < concurrency
            THEN op'[nTasks'] = "executing" /\ nTasks' \notin QueuedIds(queue')
            ELSE op'[nTasks'] = "idle" /\ nTasks' \in QueuedIds(queue')
     /\ \A t \in Ids :
          (t <= nTasks /\ op[t] = "idle" /\ op'[t] = "executing") =>
            \E u \in Ids : TaskResolves(u) \/ TaskRejects(u) \/ TimerFires(u)]_vars

\* With nothing terminated yet, task 1 was started by its own addTask and
\* task 2, submitted at the limit, waits.
C17_Witness ==
  /\ concurrency = 1 /\ nTasks = 2
  /\ \A t \in Ids : terminations[t] = 0
  /\ op[1] = "executing"
  /\ op[2] = "idle" /\ 2 \in QueuedIds(queue)

\* C18: once a task's operation has settled, by success or by failure, its
\* timer is no longer armed.
C18_SettledDisarmsTimer ==
  \A t \in Ids : op[t] \in {"resolved", "rejected"} => timer[t] # "armed"

\* C19: when a task's operation fails before its timer fires, that step
\* rejects the task's future with the operation's own error, adds one to
\* `failed`, takes the task off `running` and admits the next waiting task.
C19_FailurePassedThrough ==
  [][\A t \in Ids :
       (TaskRejects(t) /\ timer[t] = "armed") =>
          /\ future[t] = "pending"
          /\ future'[t] = TaskError
          /\ stats'.failed = stats.failed + 1
          /\ running' = (running - 1) + (IF Admits THEN 1 ELSE 0)
          /\ queue # <<>> =>
               /\ item' = Head(queue)
               /\ queue' = Tail(queue)
               /\ op'[Head(queue).id] = "executing"]_vars

\* Under a limit of 1, task 1 failed before its timer fired, its caller got
\* the operation's error, and that failure started the waiting task.
C19_Witness ==
  /\ concurrency = 1
  /\ op[1] = "rejected" /\ timer[1] = "armed" /\ future[1] = TaskError
  /\ stats.failed = 1 /\ stats.completed = 0
  /\ item.id > 1 /\ op[item.id] = "executing"

\* The tasks that wait: submitted, not started, not cleared.
Waiting == {t \in Ids : future[t] = "pending" /\ op[t] = "idle"}

\* C20 as claimed: the snapshot's `pending` is the number of tasks waiting in
\* the queue.
C20_PendingIsWaiting == GetStats.pending = Cardinality(Waiting)

\* C20 as amended: the snapshot's `size` is the number of tasks waiting in
\* the queue and its `pending` is the `running` counter; total, completed and
\* failed are those of this.stats.
C20_SizeIsWaiting ==
  /\ GetStats.size = Cardinality(Waiting)
  /\ GetStats.pending = running
  /\ GetStats.total = stats.total
  /\ GetStats.completed = stats.completed
  /\ GetStats.failed = stats.failed

\* One task runs and two wait: the snapshot says pending 1 and size 2.
C20_Witness ==
  /\ running = 1 /\ Len(queue) = 2
  /\ GetStats.pending = 1 /\ GetStats.size = 2

\* C12: the promise of onIdle(), and the onIdleWithTimeout promise that
\* follows it, resolve only in a step in which `running` is 0 and the queue
\* is empty.
C12_ResolvesOnlyWhenIdle ==
  [][\A d \in Drains :
       /\ (idle[d] # "resolved" /\ idle'[d] = "resolved") =>
            running = 0 /\ queue = <<>> /\ running' = 0 /\ queue' = <<>>
       /\ (drain[d] # "resolved" /\ drain'[d] = "resolved") =>
            running = 0 /\ queue = <<>> /\ running' = 0 /\ queue' = <<>>]_vars

\* An onIdle() promise was resolved by a poll, after tasks had been submitted
\* and a task had waited in the queue.
C12_Witness ==
  /\ idle[1] = "resolved" /\ drain[1] = "none" /\ polled
  /\ concurrency = 1 /\ nTasks >= 2
  /\ running = 0 /\ queue = <<>>
  /\ stats.completed + stats.failed >= 2

\* Nothing is queued, no operation is executing and no task timer is armed:
\* without a new submission the scheduler's state cannot change any more.
Quiescent ==
  /\ queue = <<>>
  /\ \A t \in Ids : op[t] # "executing" /\ timer[t] # "armed"

\* C13: when every submitted task's operation has settled and nothing is
\* queued, a pending onIdle() resolves: in such a state the test of checkIdle
\* holds, so its next poll resolves the promise.
C13_QuiescentDrainResolves ==
  \A d \in Drains : (idle[d] = "polling" /\ Quiescent) => IsIdle

\* C14: when the timeout of onIdleWithTimeout fires while onIdle() has not
\* resolved, the call rejects with the drain-timeout error; a rejected call
\* was rejected with that error, by that timer.
C14_DrainTimeoutOnly ==
  /\ [][\A d \in Drains : (DrainTimerFires(d) /\ idle[d] = "polling") =>
          drain[d] = "pending" /\ drain'[d] = QueueIdleTimeout]_vars
  /\ [](\A d \in Drains : drain[d] \notin {"none", "pending", "resolved"} =>
          drain[d] = QueueIdleTimeout /\ drainTimer[d] = "fired")

\* The drain timed out with a task still executing.
C14_Witness ==
  /\ drain[1] = QueueIdleTimeout /\ drainTimer[1] = "fired"
  /\ running > 0 /\ \E t \in Ids : op[t] = "executing"

\* C15 as claimed: with `running` 0 and the queue empty before the timeout
\* fires, the call does not fail with the drain-timeout error.
C15_IdleBeforeTimeoutResolves ==
  [][\A d \in Drains : (DrainTimerFires(d) /\ IsIdle /\ drain[d] = "pending") =>
       drain'[d] # QueueIdleTimeout]_vars

\* C15 as amended: a poll of checkIdle that runs with `running` 0 and the
\* queue empty before the timeout fires resolves the call, and the timeout
\* firing later does not change that.
C15_PollBeforeTimeoutResolves ==
  /\ [][\A d \in Drains : (CheckIdle(d) /\ IsIdle /\ drain[d] = "pending") =>
          drain'[d] = "resolved"]_vars
  /\ [][\A d \in Drains : drain[d] = "resolved" => drain'[d] = "resolved"]_vars

\* The call was resolved by a poll, and its timeout has fired since.
C15_Witness ==
  /\ drain[1] = "resolved" /\ drainTimer[1] = "fired" /\ polled
  /\ nTasks >= 1 /\ stats.completed + stats.failed >= 1

\* Whether the list of notes has the note.
Has(notes, note) == \E i \in 1..Len(notes) : notes[i] = note

\* C21: getHealth().isHealthy is true exactly when fewer than twice the
\* concurrency limit tasks are waiting in the queue.
C21_HealthyIffSmallBacklog ==
  GetHealth.isHealthy <=> (Len(queue) < 2 * concurrency)

\* C22: getHealth().recommendations has the scale-up note exactly when more
\* than three times the concurrency limit tasks are waiting in the queue.
C22_ScaleUpIffBacklog ==
  Has(GetHealth.recommendations, QueueBacklogHigh) <=> (Len(queue) > 3 * concurrency)

\* C23: the report has the investigate-failures note exactly when
\* 10 * failed > completed, the performing-well note exactly when
\* completed > 0 and failed = 0, and never both.
C23_FailureAndCleanNotes ==
  LET notes == GetHealth.recommendations IN
  /\ Has(notes, HighFailureRate) <=> (10 * stats.failed > stats.completed)
  /\ Has(notes, PerformingWell) <=> (stats.completed > 0 /\ stats.failed = 0)
  /\ ~(Has(notes, HighFailureRate) /\ Has(notes, PerformingWell))

\* A report with neither note although there are failures: they are exactly
\* a tenth of the completions, counted while tasks of the burst settled.
C23_Witness ==
  /\ stats.failed > 0 /\ 10 * stats.failed = stats.completed
  /\ \E t \in Ids : terminations[t] > 0
  /\ ~Has(GetHealth.recommendations, HighFailureRate)
  /\ ~Has(GetHealth.recommendations, PerformingWell)

\* C24, its first part: every submitted task is eventually admitted.
C24_EveryTaskAdmitted ==
  \A t \in Ids : (future[t] = "pending") ~> (op[t] # "idle")

\* C24, its second part: every future eventually settles.
C24_EveryFutureSettles ==
  \A t \in Ids : (future[t] = "pending") ~> (future[t] # "pending")

\* C24: for finitely many submissions whose operations all settle, with no
\* clear(), every task is eventually admitted, every future eventually
\* settles, and after every submission the scheduler eventually reaches
\* running = 0 with an empty queue, at least once.
C24_BurstDrains ==
  /\ C24_EveryTaskAdmitted
  /\ C24_EveryFutureSettles
  /\ \A t \in Ids : (future[t] = "pending") ~> IsIdle

\* C25: addTask accepts every task whatever the queue length: the call
\* counts one more in `total`, returns a pending future for the new task and
\* adds one task to the waiting ones, of which the gate of the same call may
\* admit one.
C25_AddTaskAlwaysAccepts ==
  [][\A p \in Priorities : AddTask(p) =>
       LET t == nTasks + 1
           admitted == IF Admits THEN 1 ELSE 0
       IN /\ stats'.total = stats.total + 1
          /\ future[t] = "none" /\ future'[t] = "pending"
          /\ stats'.pending = stats.pending + 1 - admitted
          /\ Len(queue') = Len(queue) + 1 - admitted
          /\ t \in QueuedIds(queue') \/ item'.id = t]_vars

\* Tasks were accepted behind a queue that already held two.
C25_Witness ==
  /\ Len(queue) >= 3
  /\ stats.total = nTasks /\ stats.pending = Len(queue)
  /\ \A i \in 1..Len(queue) : future[queue[i].id] = "pending"

\* The items the scheduler holds or admitted last, with their priorities.
TaskRecords == {item} \cup {queue[i] : i \in 1..Len(queue)}

\* Task 1 of lower priority and then task 2 of higher priority were submitted
\* to the fresh scheduler with limit 1, and nothing else has happened since.
LowerThenHigher ==
  /\ concurrency = 1 /\ nTasks = 2
  /\ \A t \in Ids : terminations[t] = 0
  /\ \E a, b \in TaskRecords : a.id = 1 /\ b.id = 2 /\ a.priority < b.priority

\* C26: with limit 1, when task A and then task B of higher priority are
\* submitted back to back to the idle scheduler, B's operation is executed
\* before A's: A's is not invoked while B's has not been.
C26_HigherSecondRunsFirst ==
  LowerThenHigher => ~(op[1] # "idle" /\ op[2] = "idle")

\* C26 as amended: with limit 1 the first task submitted to the idle scheduler
\* is invoked inside its own addTask call, and the second, whatever its
\* priority, is invoked only after the first was terminated.
C26_FirstToIdleRunsFirst ==
  concurrency = 1 =>
    /\ nTasks >= 1 => op[1] # "idle"
    /\ op[2] # "idle" => terminations[1] >= 1

\* The task of higher priority waits while the first one executes.
C26_Witness ==
  LowerThenHigher /\ op[1] = "executing" /\ op[2] = "idle" /\ Len(queue) = 1

\* Five tasks were submitted to the fresh scheduler and nothing else has
\* happened: no operation has settled, no timer has fired, no future is settled.
FiveSubmitted ==
  /\ nTasks = 5 /\ stats.total = 5
  /\ \A t \in 1..5 : future[t] = "pending" /\ terminations[t] = 0

\* C27: when clear() is called right after five submissions to a fresh
\* scheduler, all five futures reject with the queue-cleared error and
\* getStats().pending is 0, whatever the configured concurrency.
C27_ClearRejectsAllFive ==
  [][(Clear /\ FiveSubmitted) =>
       /\ \A t \in 1..5 : future'[t] = QueueCleared
       /\ GetStats'.pending = 0]_vars

\* C27 as amended: the first min(5, limit) tasks were started by their own
\* addTask calls and stay executing with their futures pending; clear()
\* rejects the others; the `pending` counter and the snapshot's size are 0
\* and the snapshot's `pending` is the number of tasks running.
C27_ClearRejectsTheWaiting ==
  [][(Clear /\ FiveSubmitted) =>
       LET started == IF concurrency < 5 THEN concurrency ELSE 5 IN
       /\ \A t \in 1..5 :
            IF t <= started
            THEN future'[t] = "pending" /\ op'[t] = "executing"
            ELSE future'[t] = QueueCleared /\ op'[t] = "idle"
       /\ stats'.pending = 0
       /\ GetStats'.size = 0
       /\ GetStats'.pending = started]_vars

\* After such a clear(): the first task runs on, the four others are rejected.
C27_Witness ==
  /\ nTasks = 5 /\ stats.total = 5 /\ \A t \in 1..5 : terminations[t] = 0
  /\ future[1] = "pending" /\ op[1] = "executing"
  /\ \A t \in 2..5 : future[t] = QueueCleared
  /\ GetStats.pending = 1

\* C29: in every reachable state the `pending` counter equals the length of
\* the queue.
C29_PendingIsQueueLength == stats.pending = Len(queue)

\* C28: a task's operation is invoked at most once, and a task that has left
\* the queue, by admission or by clear(), never enters it again.
C28_InvokedOnceNeverRequeued ==
  [][\A t \in Ids :
       /\ (Admits /\ item'.id = t) => op[t] = "idle" /\ op'[t] = "executing"
       /\ (op[t] # "executing" /\ op'[t] = "executing") => (Admits /\ item'.id = t)
       /\ (future[t] # "none" /\ t \notin QueuedIds(queue)) => t \notin QueuedIds(queue')
       /\ Cardinality(QueuedIds(queue')) = Len(queue')]_vars

\* One task was removed by clear(), another failed and then timed out, and
\* the scheduler has gone on admitting.
C28_Witness ==
  /\ \E t \in Ids : future[t] = QueueCleared /\ op[t] = "idle"
  /\ \E u \in Ids : op[u] = "rejected" /\ timer[u] = "fired" /\ terminations[u] = 2
  /\ \E v \in Ids : op[v] = "executing" /\ v = nTasks

\* C30, its first part: a task rejected by the queue's task timeout is
\* answered with 408 TIMEOUT_ERROR.
C30_TaskTimeoutIs408 ==
  \A t \in Ids : (response[t] # NoResponse /\ future[t] = TaskTimeout) =>
                    response[t] = [statusCode |-> 408, type |-> "TIMEOUT_ERROR"]

\* C30: every timeout is answered with status 408 and type TIMEOUT_ERROR: a
\* request whose task the queue's timer rejected, and a request whose image
\* download has timed out.
C30_TimeoutsAre408 ==
  /\ []C30_TaskTimeoutIs408
  /\ [][\A t \in Ids : DownloadTimesOut(t) =>
          response'[t] = [statusCode |-> 408, type |-> "TIMEOUT_ERROR"]]_vars

\* The download of a request timed out and the request was answered with 408;
\* another request failed for another reason and was answered otherwise.
C30_Witness ==
  \E t, u \in Ids :
    /\ thrown[t] = DownloadTimeout /\ timer[t] = "fired" /\ future[t] = TaskTimeout
    /\ response[t] = [statusCode |-> 408, type |-> "TIMEOUT_ERROR"]
    /\ future[u] = TaskError /\ response[u].statusCode \notin {0, 408}

\* C31: a clear() that removes k queued tasks increases `failed` by k.
C31_ClearCountsFailed ==
  [][Clear => stats'.failed = stats.failed + Len(queue)]_vars

\* C33: in every reachable state none of the counters running, pending,
\* completed, failed and total is negative.
C33_CountersNonNegative ==
  /\ running >= 0
  /\ stats.pending >= 0 /\ stats.completed >= 0
  /\ stats.failed >= 0 /\ stats.total >= 0

\* C34: when the promise of onIdle() resolves, no task is queued and no
\* submitted task has an unsettled future.
C34_DrainedMeansDelivered ==
  [][\A d \in Drains : (idle[d] # "resolved" /\ idle'[d] = "resolved") =>
       /\ queue' = <<>>
       /\ \A t \in Ids : future'[t] # "pending"]_vars

\* C36: once the promise of onIdleWithTimeout has settled, no timer of the
\* call is armed: neither checkIdle's 100 ms timer nor the timeout's.
C36_SettledDrainLeavesNoTimer ==
  \A d \in Drains :
    (drain[d] \notin {"none", "pending"}) => (idle[d] # "polling" /\ drainTimer[d] # "armed")

\* C35: after a signal the process exits only once the server has closed and
\* a drain call of the shutdown has resolved (it saw the scheduler idle, in
\* the call or in a poll) or its timeout has fired, and once the server has
\* closed the process does exit.
C35_ExitsAfterDrainOrTimeout ==
  /\ [][(shutdown # "exited" /\ shutdown' = "exited") =>
          /\ shutdown = "draining"
          /\ \E d \in 1..signals :
               \/ drain[d] = "resolved" /\ idle[d] = "resolved"
               \/ drain[d] = QueueIdleTimeout /\ drainTimer[d] = "fired"]_vars
  /\ (shutdown = "draining") ~> (shutdown = "exited")

\* The process has exited on the drain timeout with a task still executing.
C35_Witness ==
  /\ shutdown = "exited"
  /\ \A d \in 1..signals : drain[d] = QueueIdleTimeout
  /\ \E t \in Ids : op[t] = "executing" /\ future[t] = "pending"

\* The record of task t in the queue q.
Queued(q, t) == CHOOSE x \in {q[i] : i \in 1..Len(q)} : x.id = t

\* C32: a task's timer is armed at admission, not at submission, with the
\* task's own timeout when one was given and the scheduler's otherwise: a
\* task waiting in the queue has no timer and has not timed out; addTask
\* records `options.timeout || this.timeout` for the task and arms its timer
\* only if it admits it; a timer is armed only for the item the step admits,
\* with the recorded timeout as its delay; the timer that fires is never that
\* of a queued task.
C32_TimerArmedAtAdmission ==
  [][/\ \A t \in QueuedIds(queue) :
          timer[t] = "unset" /\ delay[t] = 0 /\ future[t] = "pending"
     /\ \A to \in Timeouts : AddTaskTimed(to) =>
          LET t == nTasks'
              own == IF to = 0 THEN timeout ELSE to
          IN IF t \in QueuedIds(queue')
             THEN Queued(queue', t).timeout = own /\ timer'[t] = "unset"
             ELSE item'.id = t /\ timer'[t] = "armed" /\ delay'[t] = own
     /\ \A t \in Ids : (timer[t] # "armed" /\ timer'[t] = "armed") =>
          /\ Admits /\ item'.id = t /\ t \notin QueuedIds(queue')
          /\ delay'[t] = item'.timeout
          /\ t \in QueuedIds(queue) => delay'[t] = Queued(queue, t).timeout
     /\ \A t \in Ids : TimerFires(t) => t \notin QueuedIds(queue)]_vars

\* A task runs under a timer of its own timeout, which is not the
\* scheduler's, while another task waits in the queue without a timer.
C32_Witness ==
  \E t \in Ids, u \in QueuedIds(queue) :
    /\ op[t] = "executing" /\ timer[t] = "armed" /\ delay[t] # timeout
    /\ timer[u] = "unset" /\ Queued(queue, u).timeout = timeout

====
